---- MODULE Spec2Model ----
\* A model of ramble's pip package manager: the PipRunner class (one venv + pip
\* environment on disk) and the Pip package manager phases that drive it through
\* the workspace cache.
EXTENDS Integers, Sequences, FiniteSets, TLC

\* ---------------------------------------------------------------- bounds

\* mtimes are readings of a clock that runs from 0 to MaxClock
MaxClock == 1
\* length of the sequences of add_spec calls the content is compared over
MaxAdds == 3
\* executions of one phase body per cache key that the model follows in one run
MaxBodyRuns == 2
\* calls of populate_inventory per Pip instance that the model follows in one run
MaxInventory == 1

\* ---------------------------------------------------------------- data

\* os.linesep and the characters the package specs are made of
NL == 10
ChA == 97
ChB == 98

LineSep == <<NL>>

\* package specs: the strings "ab" and "b"
SpecUniverse == {<<ChA, ChB>>, <<ChB>>}

\* lists package_specs_for_environment returns: ["b"] and ["b", "ab", "b"]
SpecLists == {<<<<ChB>>>>, <<<<ChB>>, <<ChA, ChB>>, <<ChB>>>>}

None == "None"
EnvA == "/env/a"
EnvF == "/env/f"
Paths == {EnvA, EnvF}
Insts == {1, 2}

NoErr == "none"

NoFile == [exists |-> FALSE, bytes |-> <<>>, mtime |-> 0]
NoDir == [kind |-> "absent", venv |-> "absent", req |-> NoFile, lock |-> NoFile]
RegularFile == [kind |-> "file", venv |-> "absent", req |-> NoFile, lock |-> NoFile]

File(bytes, now) == [exists |-> TRUE, bytes |-> bytes, mtime |-> now]

\* ---------------------------------------------------------------- state

VARIABLES
    fsys,       \* the disk: what is at each environment path
    clock,      \* the time mtimes are taken from
    runner,     \* the PipRunner of each Pip instance
    cache,      \* the workspace cache of (phase label, env_path) tuples
    ws_dry_run, \* workspace.dry_run
    env_of,     \* app_inst.expander.env_path of each Pip instance
    last,       \* the last call: what was called, what it raised, what it ran
    bodyRuns,   \* how often each phase body was entered in this run
    done,       \* how each phase of each instance ended in this run
    prevOk,     \* per path: what the previous run installed there
    hash_inventory \* app_inst.hash_inventory of each Pip instance

vars == <<fsys, clock, runner, cache, ws_dry_run, env_of, last, bodyRuns, done,
          prevOk, hash_inventory>>

\* ---------------------------------------------------------------- helpers

Range(s) == {s[k] : k \in 1..Len(s)}

\* Python's str comparison: lexicographic on the characters
RECURSIVE LexLess(_, _)
LexLess(a, b) ==
    IF a = <<>> THEN b # <<>>
    ELSE IF b = <<>> THEN FALSE
    ELSE IF Head(a) # Head(b) THEN Head(a) < Head(b)
    ELSE LexLess(Tail(a), Tail(b))

\* sorted(specs)
RECURSIVE Sorted(_)
Sorted(S) ==
    IF S = {} THEN <<>>
    ELSE LET m == CHOOSE x \in S : \A y \in S \ {x} : LexLess(x, y)
         IN <<m>> \o Sorted(S \ {m})

\* sep.join(seq)
RECURSIVE Join(_, _)
Join(seq, sep) ==
    IF seq = <<>> THEN <<>>
    ELSE IF Len(seq) = 1 THEN seq[1]
    ELSE seq[1] \o sep \o Join(Tail(seq), sep)

Dir(fs, p) == IF p \in Paths THEN fs[p] ELSE NoDir

\* os.path.exists(os.path.join(env_path, name))
ReqExists(fs, p) == Dir(fs, p).kind = "dir" /\ Dir(fs, p).req.exists
LockExists(fs, p) == Dir(fs, p).kind = "dir" /\ Dir(fs, p).lock.exists
ActivateExists(fs, p) == Dir(fs, p).kind = "dir" /\ Dir(fs, p).venv = "ok"
VenvExists(fs, p) == Dir(fs, p).kind = "dir" /\ Dir(fs, p).venv # "absent"

\* ---------------------------------------------------------------- PipRunner

\* PipRunner.__init__
NewRunner ==
    [env_path |-> None, dry_run |-> FALSE, specs |-> {}, installed |-> FALSE]

\* The context a call runs in: the runner, the disk, the external commands the
\* call has run, the exception it raised, its result.
Ctx(r, fs) ==
    [r |-> r, fs |-> fs, ext |-> {}, err |-> NoErr, ret |-> <<>>]

Raise(c, e) == [c EXCEPT !.err = e]

\* PipRunner.configure_env
configure_env(c, path) == [c EXCEPT !.r.env_path = path]

\* PipRunner.set_dry_run
set_dry_run(c, dry) == [c EXCEPT !.r.dry_run = dry]

\* python -m venv: it succeeds, or fails before or after it made the directory
VenvOutcomes == {"ok", "fail", "fail_partial"}

\* create_env that bootstraps the venv whether or not it is there
create_env_always_bootstraps(c, env_path, venvOut) ==
    IF Dir(c.fs, env_path).kind = "file" THEN Raise(c, "path_conflict")
    ELSE
    LET c1 == [c EXCEPT !.fs[env_path].kind = "dir"]
    IN  IF ~c1.r.dry_run
        THEN LET c2 == [c1 EXCEPT !.ext = @ \cup {"venv"}]
             IN  IF venvOut = "ok"
                 THEN [c2 EXCEPT !.fs[env_path].venv = "ok", !.r.env_path = env_path]
                 ELSE IF venvOut = "fail_partial"
                 THEN Raise([c2 EXCEPT !.fs[env_path].venv = "partial"], "tool")
                 ELSE Raise(c2, "tool")
        ELSE [c1 EXCEPT !.r.env_path = env_path]

\* create_env without its test for a path that is not a directory
create_env_no_conflict_test(c, env_path, venvOut) ==
    LET c1 == [c EXCEPT !.fs[env_path].kind = "dir"]
    IN  [c1 EXCEPT !.r.env_path = env_path]

\* PipRunner.create_env
create_env(c, env_path, venvOut) ==
    IF Dir(c.fs, env_path).kind = "file" THEN Raise(c, "path_conflict")
    ELSE
    LET c1 == [c EXCEPT !.fs[env_path].kind = "dir"]
    IN  IF ~c1.r.dry_run /\ ~VenvExists(c1.fs, env_path)
        THEN LET c2 == [c1 EXCEPT !.ext = @ \cup {"venv"}]
             IN  IF venvOut = "ok"
                 THEN [c2 EXCEPT !.fs[env_path].venv = "ok", !.r.env_path = env_path]
                 ELSE IF venvOut = "fail_partial"
                 THEN Raise([c2 EXCEPT !.fs[env_path].venv = "partial"], "tool")
                 ELSE Raise(c2, "tool")
        ELSE [c1 EXCEPT !.r.env_path = env_path]

\* PipRunner._check_env_configured: the exception it raises, if any
check_env_configured(c) ==
    IF c.r.env_path = None THEN "not_configured"
    ELSE IF c.r.dry_run THEN NoErr
    ELSE IF ~ActivateExists(c.fs, c.r.env_path) THEN "venv_not_configured"
    ELSE NoErr

\* the specs joined in the order of their length instead of sorted
RECURSIVE ByLength(_)
ByLength(S) ==
    IF S = {} THEN <<>>
    ELSE LET m == CHOOSE x \in S : \A y \in S \ {x} :
                      Len(x) < Len(y) \/ (Len(x) = Len(y) /\ LexLess(x, y))
         IN <<m>> \o ByLength(S \ {m})

generate_requirement_content_unsorted(specs) == Join(ByLength(specs), LineSep) \o LineSep

\* PipRunner._generate_requirement_content
generate_requirement_content(specs) == Join(Sorted(specs), LineSep) \o LineSep

\* pip freeze -r requirements.txt: the pinned form of what was installed
FreezeOutput(reqBytes) == <<ChA>> \o reqBytes

\* pip install and pip freeze: both succeed, or one of them fails
InstallOutcomes == {"ok", "install_fails", "freeze_fails"}

\* install with the requirement file looked for before the installed flag
install_req_first(c, now, out) ==
    LET e == check_env_configured(c)
        p == c.r.env_path
    IN  IF e # NoErr THEN Raise(c, e)
        ELSE IF ~ReqExists(c.fs, p) THEN Raise(c, "missing_req")
        ELSE IF c.r.installed THEN c
        ELSE IF c.r.dry_run THEN [c EXCEPT !.r.installed = TRUE]
        ELSE IF out = "install_fails" THEN Raise([c EXCEPT !.ext = {"install"}], "tool")
        ELSE IF out = "freeze_fails"
        THEN Raise([c EXCEPT !.ext = {"install", "freeze"},
                             !.fs[p].lock = File(<<>>, now)], "tool")
        ELSE [c EXCEPT !.ext = {"install", "freeze"}, !.r.installed = TRUE,
                       !.fs[p].lock = File(FreezeOutput(c.fs[p].req.bytes), now)]

\* install that sets the installed flag before it runs pip
install_marks_first(c, now, out) ==
    LET e == check_env_configured(c)
        p == c.r.env_path
    IN  IF e # NoErr THEN Raise(c, e)
        ELSE IF c.r.installed THEN c
        ELSE IF ~ReqExists(c.fs, p) THEN Raise(c, "missing_req")
        ELSE IF c.r.dry_run THEN [c EXCEPT !.r.installed = TRUE]
        ELSE
        LET c1 == [c EXCEPT !.ext = @ \cup {"install"}, !.r.installed = TRUE]
        IN  IF out = "install_fails" THEN Raise(c1, "tool")
            ELSE
            LET c2 == [c1 EXCEPT !.fs[p].lock = File(<<>>, now),
                                 !.ext = @ \cup {"freeze"}]
            IN  IF out = "freeze_fails" THEN Raise(c2, "tool")
                ELSE [c2 EXCEPT !.fs[p].lock = File(FreezeOutput(c.fs[p].req.bytes), now)]

\* install without its test of the installed flag
install_always(c, now, out) ==
    LET p == c.r.env_path
    IN  IF check_env_configured(c) # NoErr THEN Raise(c, check_env_configured(c))
        ELSE IF ~ReqExists(c.fs, p) THEN Raise(c, "missing_req")
        ELSE IF c.r.dry_run THEN [c EXCEPT !.r.installed = TRUE]
        ELSE IF out = "install_fails" THEN Raise([c EXCEPT !.ext = {"install"}], "tool")
        ELSE [c EXCEPT !.ext = {"install", "freeze"}, !.r.installed = TRUE,
                       !.fs[p].lock = File(FreezeOutput(c.fs[p].req.bytes), now)]

\* PipRunner.install
install(c, now, out) ==
    LET e == check_env_configured(c)
        p == c.r.env_path
    IN  IF e # NoErr THEN Raise(c, e)
        ELSE IF c.r.installed THEN c
        ELSE IF ~ReqExists(c.fs, p) THEN Raise(c, "missing_req")
        ELSE IF c.r.dry_run THEN [c EXCEPT !.r.installed = TRUE]
        ELSE
        LET c1 == [c EXCEPT !.ext = @ \cup {"install"}]
        IN  IF out = "install_fails" THEN Raise(c1, "tool")
            ELSE
            LET c2 == [c1 EXCEPT !.fs[p].lock = File(<<>>, now),
                                 !.ext = @ \cup {"freeze"}]
            IN  IF out = "freeze_fails" THEN Raise(c2, "tool")
                ELSE [c2 EXCEPT !.fs[p].lock = File(FreezeOutput(c.fs[p].req.bytes), now),
                                !.r.installed = TRUE]

\* the test without the comparison of the content
UpToDateByTimeOnly(c, contents) ==
    LET p == c.r.env_path
    IN  /\ ReqExists(c.fs, p)
        /\ LockExists(c.fs, p)
        /\ c.fs[p].lock.mtime >= c.fs[p].req.mtime

\* the test with a lock file that has to be strictly newer
UpToDateStrictlyNewer(c, contents) ==
    LET p == c.r.env_path
    IN  /\ ReqExists(c.fs, p)
        /\ LockExists(c.fs, p)
        /\ c.fs[p].lock.mtime > c.fs[p].req.mtime
        /\ c.fs[p].req.bytes = contents

\* the test of generate_requirement_file that the files on disk are up to date
UpToDate(c, contents) ==
    LET p == c.r.env_path
    IN  /\ ReqExists(c.fs, p)
        /\ LockExists(c.fs, p)
        /\ c.fs[p].lock.mtime >= c.fs[p].req.mtime
        /\ c.fs[p].req.bytes = contents

\* generate_requirement_file that clears the installed flag when it writes
generate_requirement_file_resets(c, now) ==
    LET e == check_env_configured(c)
        p == c.r.env_path
        contents == generate_requirement_content(c.r.specs)
    IN  IF e # NoErr THEN Raise(c, e)
        ELSE IF UpToDate(c, contents) THEN [c EXCEPT !.r.installed = TRUE]
        ELSE IF Dir(c.fs, p).kind # "dir" THEN Raise(c, "oserror")
        ELSE [c EXCEPT !.fs[p].req = File(contents, now), !.r.installed = FALSE]

\* PipRunner.generate_requirement_file
generate_requirement_file(c, now) ==
    LET e == check_env_configured(c)
        p == c.r.env_path
        contents == generate_requirement_content(c.r.specs)
    IN  IF e # NoErr THEN Raise(c, e)
        ELSE IF UpToDate(c, contents) THEN [c EXCEPT !.r.installed = TRUE]
        ELSE IF Dir(c.fs, p).kind # "dir" THEN Raise(c, "oserror")
        ELSE [c EXCEPT !.fs[p].req = File(contents, now)]

\* add_spec without the configuration check
add_spec_unchecked(c, spec) == [c EXCEPT !.r.specs = @ \cup {spec}]

\* PipRunner.add_spec
add_spec(c, spec) ==
    LET e == check_env_configured(c)
    IN  IF e # NoErr THEN Raise(c, e)
        ELSE [c EXCEPT !.r.specs = @ \cup {spec}]

\* the token get_version finds in the output of pip --version
PipVersion == <<ChB>>

\* PipRunner.get_version
get_version(c, versionOk) ==
    IF ~c.r.dry_run /\ c.r.env_path = None THEN Raise(c, "typeerror")
    ELSE IF ~c.r.dry_run /\ ~ActivateExists(c.fs, c.r.env_path) THEN Raise(c, "tool")
    ELSE LET c1 == [c EXCEPT !.ext = @ \cup {"version"}]
         IN  IF versionOk THEN [c1 EXCEPT !.ret = PipVersion] ELSE Raise(c1, "tool")

\* ramble.util.hashing: hash_string and hash_file digest the bytes they are given
Hash(bytes) == <<Len(bytes)>> \o bytes

\* inventory_hash that digests the requirement file on disk in dry-run
inventory_hash_of_written(c) ==
    LET e == check_env_configured(c)
        p == c.r.env_path
    IN  IF e # NoErr THEN Raise(c, e)
        ELSE IF c.r.dry_run
        THEN IF ~ReqExists(c.fs, p) THEN Raise(c, "oserror")
             ELSE [c EXCEPT !.ret = Hash(c.fs[p].req.bytes)]
        ELSE IF ~LockExists(c.fs, p) THEN Raise(c, "oserror")
        ELSE [c EXCEPT !.ret = Hash(c.fs[p].lock.bytes)]

\* PipRunner.inventory_hash
inventory_hash(c) ==
    LET e == check_env_configured(c)
        p == c.r.env_path
    IN  IF e # NoErr THEN Raise(c, e)
        ELSE IF c.r.dry_run
        THEN [c EXCEPT !.ret = Hash(generate_requirement_content(c.r.specs))]
        ELSE IF ~LockExists(c.fs, p) THEN Raise(c, "oserror")
        ELSE [c EXCEPT !.ret = Hash(c.fs[p].lock.bytes)]

\* ---------------------------------------------------------------- Pip

PipEnv == "pip-env"
PipInstall == "pip-install"
Labels == {PipEnv, PipInstall}
CacheKeys == Labels \X Paths

\* workspace.check_cache and workspace.add_to_cache
check_cache(cch, key) == key \in cch
add_to_cache(cch, key) == cch \cup {key}

\* a phase that does not look into the cache
PhaseSkipsNever(cch, key) == FALSE

\* The test both phases start with: the phase returns when its tuple is in the
\* cache.
PhaseSkips(cch, key) == check_cache(cch, key)

\* the tuple added only once the body has returned
PhaseCacheOnSuccess(cch, key, err) == IF err = NoErr THEN add_to_cache(cch, key) ELSE cch

\* the tuple added under the label alone
PhaseCacheByLabel(cch, key, err) == add_to_cache(cch, <<key[1], None>>)

\* The cache a phase that was not skipped leaves: the tuple is added before the
\* body runs, so whatever the body raises (err).
PhaseCache(cch, key, err) == add_to_cache(cch, key)

RECURSIVE add_specs(_, _)
add_specs(c, list) ==
    IF list = <<>> \/ c.err # NoErr THEN c
    ELSE add_specs(add_spec(c, Head(list)), Tail(list))

\* Pip._software_create_env after the cache test. hasEnv: render_environment
\* returned an environment; list: its package specs.
software_create_env(c, dry, env_path, now, venvOut, hasEnv, list) ==
    LET c1 == create_env(set_dry_run(c, dry), env_path, venvOut)
    IN  IF c1.err # NoErr \/ ~hasEnv THEN c1
        ELSE LET c2 == add_specs(c1, list)
             IN  IF c2.err # NoErr THEN c2 ELSE generate_requirement_file(c2, now)

\* Pip._software_install after the cache test. required: environment_required()
software_install(c, dry, env_path, now, required, out) ==
    IF ~required THEN c
    ELSE install(configure_env(set_dry_run(c, dry), env_path), now, out)

\* Pip.name
PipName == "pip"

\* env_path.replace(workspace.root + os.path.sep, ""), for the workspace root
\* "/env"
Relative(path) == IF path = EnvA THEN "a" ELSE IF path = EnvF THEN "f" ELSE path

\* app_inst.hash_inventory with nothing recorded
NoInventory == [package_manager |-> <<>>, software |-> <<>>]

\* Pip.populate_inventory: the context it ends in and the inventory it leaves
populate_inventory(c, inv, dry, env_path, versionOk) ==
    LET c2 == get_version(configure_env(set_dry_run(c, dry), env_path), versionOk)
        inv1 == [inv EXCEPT !.package_manager =
                     Append(@, [name |-> PipName, version |-> c2.ret,
                                digest |-> Hash(c2.ret)])]
    IN  IF c2.err # NoErr THEN [c |-> c2, inv |-> inv]
        ELSE IF c2.r.env_path = None
        THEN [c |-> Raise(c2, "attributeerror"), inv |-> inv1]
        ELSE LET c3 == inventory_hash(c2)
             IN  IF c3.err # NoErr THEN [c |-> c3, inv |-> inv1]
                 ELSE [c |-> c3,
                       inv |-> [inv1 EXCEPT !.software =
                                   Append(@, [name |-> Relative(c3.r.env_path),
                                              digest |-> c3.ret])]]

\* ---------------------------------------------------------------- actions

\* The record of a call. again: it is a call on the runner, and the call before
\* it was the same call on the same runner, and returned.
Record(op, i, path, skipped, c, again) ==
    [op |-> op, inst |-> i, path |-> path, skipped |-> skipped,
     err |-> c.err, ext |-> c.ext, again |-> again]

Called(op, i, path, skipped, c) ==
    Record(op, i, path, skipped, c, last.op = op /\ last.inst = i /\ last.err = NoErr)

\* what a call on runner i leaves behind
Effect(i, c) ==
    /\ runner' = [runner EXCEPT ![i] = c.r]
    /\ fsys' = c.fs

Here(i) == Ctx(runner[i], fsys)

OrchUnchanged ==
    UNCHANGED <<clock, cache, ws_dry_run, env_of, bodyRuns, done, prevOk, hash_inventory>>

\* the process constructs the runner anew: PipRunner()
Construct(i) ==
    /\ runner' = [runner EXCEPT ![i] = NewRunner]
    /\ last' = Called("init", i, None, FALSE, Ctx(NewRunner, fsys))
    /\ UNCHANGED fsys
    /\ OrchUnchanged

ConfigureEnv(i, p) ==
    LET c == configure_env(Here(i), p)
    IN  Effect(i, c) /\ last' = Called("configure_env", i, p, FALSE, c) /\ OrchUnchanged

SetDryRun(i, b) ==
    LET c == set_dry_run(Here(i), b)
    IN  Effect(i, c) /\ last' = Called("set_dry_run", i, None, FALSE, c) /\ OrchUnchanged

CreateEnv(i, p) ==
    \E venvOut \in VenvOutcomes :
        LET c == create_env(Here(i), p, venvOut)
        IN  Effect(i, c) /\ last' = Called("create_env", i, p, FALSE, c) /\ OrchUnchanged

AddSpec(i, s) ==
    LET c == add_spec(Here(i), s)
    IN  Effect(i, c) /\ last' = Called("add_spec", i, None, FALSE, c) /\ OrchUnchanged

GenerateRequirementFile(i) ==
    LET c == generate_requirement_file(Here(i), clock)
    IN  Effect(i, c) /\ last' = Called("generate_requirement_file", i, None, FALSE, c)
        /\ OrchUnchanged

Install(i) ==
    \E out \in InstallOutcomes :
        LET c == install(Here(i), clock, out)
        IN  Effect(i, c) /\ last' = Called("install", i, None, FALSE, c) /\ OrchUnchanged

GetVersion(i) ==
    \E versionOk \in BOOLEAN :
        LET c == get_version(Here(i), versionOk)
        IN  Effect(i, c) /\ last' = Called("get_version", i, None, FALSE, c) /\ OrchUnchanged

InventoryHash(i) ==
    LET c == inventory_hash(Here(i))
    IN  Effect(i, c) /\ last' = Called("inventory_hash", i, None, FALSE, c) /\ OrchUnchanged

\* time passes
Tick ==
    /\ clock < MaxClock
    /\ clock' = clock + 1
    /\ UNCHANGED <<fsys, runner, cache, ws_dry_run, env_of, last, bodyRuns, done,
                   prevOk, hash_inventory>>

\* A phase of instance i: label, and c, the context its body ends in.
\* acts: the body got to call the runner (there is a software environment to
\* write the requirement file of, the environment is required). done records
\* how the phase ended: "failed" (it raised), "ok" (the runner was called and
\* returned), "idle" (it was skipped, or had nothing to call the runner for).
Phase(i, label, c, acts) ==
    LET p == env_of[i]
        key == <<label, p>>
    IN  IF p = None
        THEN /\ last' = Record(label, i, p, FALSE, Raise(Here(i), "env_path_none"), FALSE)
             /\ done' = [done EXCEPT ![i][label] = "failed"]
             /\ UNCHANGED <<fsys, clock, runner, cache, ws_dry_run, env_of,
                            bodyRuns, prevOk, hash_inventory>>
        ELSE IF PhaseSkips(cache, key)
        THEN /\ last' = Record(label, i, p, TRUE, Here(i), FALSE)
             /\ done' = [done EXCEPT ![i][label] = "idle"]
             /\ UNCHANGED <<fsys, clock, runner, cache, ws_dry_run, env_of,
                            bodyRuns, prevOk, hash_inventory>>
        ELSE /\ bodyRuns[key] < MaxBodyRuns
             /\ bodyRuns' = [bodyRuns EXCEPT ![key] = @ + 1]
             /\ Effect(i, c)
             /\ cache' = PhaseCache(cache, key, c.err)
             /\ last' = Record(label, i, p, FALSE, c, FALSE)
             /\ done' = [done EXCEPT ![i][label] =
                            IF c.err # NoErr THEN "failed"
                            ELSE IF acts THEN "ok" ELSE "idle"]
             /\ UNCHANGED <<clock, ws_dry_run, env_of, prevOk, hash_inventory>>

\* whether the phase gets to its body (the inputs of the body matter only then)
Enters(i, label) == env_of[i] # None /\ ~PhaseSkips(cache, <<label, env_of[i]>>)

SoftwareCreateEnv(i) ==
    \E venvOut \in IF Enters(i, PipEnv) THEN VenvOutcomes ELSE {"ok"}, hasEnv \in BOOLEAN :
      \E list \in IF hasEnv /\ Enters(i, PipEnv) THEN SpecLists ELSE {<<>>} :
        Phase(i, PipEnv,
              software_create_env(Here(i), ws_dry_run, env_of[i], clock,
                                  venvOut, hasEnv, list),
              hasEnv)

\* register_phase: software_install runs after software_create_env
SoftwareInstall(i) ==
    /\ done[i][PipEnv] # "none"
    /\ \E required \in BOOLEAN :
        \E out \in IF required /\ Enters(i, PipInstall) THEN InstallOutcomes ELSE {"ok"} :
          Phase(i, PipInstall,
                software_install(Here(i), ws_dry_run, env_of[i], clock, required, out),
                required)

\* the inventory of an instance is populated once its setup phases are through
InventoryFollowsSetup(i) == done[i][PipInstall] # "none"

PopulateInventory(i) ==
    /\ InventoryFollowsSetup(i)
    /\ Len(hash_inventory[i].package_manager) < MaxInventory
    /\ \E versionOk \in BOOLEAN :
          LET res == populate_inventory(Here(i), hash_inventory[i], ws_dry_run,
                                        env_of[i], versionOk)
          IN  /\ Effect(i, res.c)
              /\ hash_inventory' = [hash_inventory EXCEPT ![i] = res.inv]
              /\ last' = Record("populate_inventory", i, env_of[i], FALSE, res.c, FALSE)
              /\ UNCHANGED <<clock, cache, ws_dry_run, env_of, bodyRuns, done, prevOk>>

NothingInstalled == [ok |-> FALSE, specs |-> {}]

\* what this run leaves installed at path p: the Spec Set of an instance whose
\* runner wrote the requirement file and then installed it, not in dry-run
Installed(p) ==
    LET who == {i \in Insts : env_of[i] = p /\ \A l \in Labels : done[i][l] = "ok"}
    IN  IF ws_dry_run \/ who = {} THEN NothingInstalled
        ELSE [ok |-> TRUE, specs |-> runner[CHOOSE i \in who : TRUE].specs]

\* the pipeline runs again: a new workspace cache, new Pip instances
NewRun ==
    /\ cache' = {}
    /\ runner' = [i \in Insts |-> NewRunner]
    /\ bodyRuns' = [k \in CacheKeys |-> 0]
    /\ done' = [i \in Insts |-> [l \in Labels |-> "none"]]
    /\ prevOk' = [p \in Paths |-> Installed(p)]
    /\ ws_dry_run' \in BOOLEAN
    /\ env_of' \in {e \in [Insts -> Paths \cup {None}] : e[1] = EnvA}
    /\ hash_inventory' = [i \in Insts |-> NoInventory]
    /\ last' = Record("new_run", 0, None, FALSE, Ctx(NewRunner, fsys), FALSE)
    /\ UNCHANGED <<fsys, clock>>

Init ==
    /\ fsys = [p \in Paths |-> IF p = EnvF THEN RegularFile ELSE NoDir]
    /\ clock = 0
    /\ runner = [i \in Insts |-> NewRunner]
    /\ cache = {}
    /\ ws_dry_run = FALSE
    /\ env_of = [i \in Insts |-> EnvA]
    /\ last = [op |-> "new_run", inst |-> 0, path |-> None, skipped |-> FALSE,
               err |-> NoErr, ext |-> {}, again |-> FALSE]
    /\ bodyRuns = [k \in CacheKeys |-> 0]
    /\ done = [i \in Insts |-> [l \in Labels |-> "none"]]
    /\ prevOk = [p \in Paths |-> NothingInstalled]
    /\ hash_inventory = [i \in Insts |-> NoInventory]

\* the pipeline drives the Pip instances through the setup phases
Next ==
    \/ \E i \in Insts : SoftwareCreateEnv(i)
    \/ \E i \in Insts : SoftwareInstall(i)
    \/ NewRun
    \/ Tick

Spec == Init /\ [][Next]_vars

\* the pipeline drives the Pip instances through the setup phases and has them
\* populate the hash inventory
NextInventory ==
    \/ \E i \in Insts : SoftwareCreateEnv(i)
    \/ \E i \in Insts : SoftwareInstall(i)
    \/ \E i \in Insts : PopulateInventory(i)
    \/ NewRun
    \/ Tick

SpecInventory == Init /\ [][NextInventory]_vars

\* a client drives one PipRunner
NextRunner ==
    \/ Construct(1)
    \/ \E p \in Paths : ConfigureEnv(1, p)
    \/ \E b \in BOOLEAN : SetDryRun(1, b)
    \/ \E p \in Paths : CreateEnv(1, p)
    \/ \E s \in SpecUniverse : AddSpec(1, s)
    \/ GenerateRequirementFile(1)
    \/ Install(1)
    \/ GetVersion(1)
    \/ InventoryHash(1)
    \/ Tick

SpecRunner == Init /\ [][NextRunner]_vars

\* a client drives one PipRunner in real mode and gives it one path
NextReal ==
    \/ Construct(1)
    \/ \E p \in Paths : runner[1].env_path \in {None, p} /\ ConfigureEnv(1, p)
    \/ \E p \in Paths : runner[1].env_path \in {None, p} /\ CreateEnv(1, p)
    \/ \E s \in SpecUniverse : AddSpec(1, s)
    \/ GenerateRequirementFile(1)
    \/ Install(1)
    \/ GetVersion(1)
    \/ InventoryHash(1)
    \/ Tick

SpecReal == Init /\ [][NextReal]_vars

\* ---------------------------------------------------------------- claims

Content1 == generate_requirement_content(runner[1].specs)
Path1 == runner[1].env_path

\* C1: while dry_run is true no call on the runner changes the disk or runs an
\* external command.
C1_DryRunTouchesNothing ==
    [][runner[1].dry_run => (fsys' = fsys /\ (last' # last => last'.ext = {}))]_vars

\* C2: generate_requirement_file called on an installed runner right after an
\* add_spec that made the content differ from the requirement file rewrites the
\* file and clears the installed flag.
C2_SpecChangeClearsInstalled ==
    [][(/\ last.op = "add_spec" /\ last.err = NoErr
        /\ last'.op = "generate_requirement_file"
        /\ GenerateRequirementFile(1)
        /\ runner[1].installed
        /\ ReqExists(fsys, Path1)
        /\ fsys[Path1].req.bytes # Content1
        /\ last'.err = NoErr)
       => (fsys'[Path1].req.bytes = Content1 /\ ~runner'[1].installed)]_vars

\* C3: an install() that returns sets the installed flag, having run the
\* installer once in real mode; the install() called right after it runs no
\* command and leaves the disk, the lock file included, and the runner as they are.
C3_InstallTwiceInstallsOnce ==
    [][(last'.op = "install" /\ Install(1)) =>
        /\ (~runner[1].installed /\ last'.err = NoErr) =>
              /\ runner'[1].installed
              /\ last'.ext = IF runner[1].dry_run THEN {} ELSE {"install", "freeze"}
        /\ (last.op = "install" /\ last.err = NoErr) =>
              /\ last'.err = NoErr
              /\ last'.ext = {}
              /\ fsys' = fsys
              /\ runner' = runner]_vars

C3_Witness ==
    /\ last.op = "install" /\ last.again /\ last.err = NoErr /\ last.ext = {}
    /\ ~runner[1].dry_run /\ runner[1].installed
    /\ LockExists(fsys, Path1) /\ fsys[Path1].lock.bytes # <<>>

\* C4: a generate_requirement_file that gets past the configuration check
\* leaves the disk alone and sets the installed flag when the requirement file
\* and the lock file exist, the lock file is not older and the requirement file
\* holds the computed content; otherwise it leaves the installed flag alone and
\* writes the computed content to the requirement file (the write raises when
\* the directory is not there).
C4_SkipsExactlyWhenUpToDate ==
    [][(/\ last'.op = "generate_requirement_file"
        /\ GenerateRequirementFile(1)
        /\ check_env_configured(Here(1)) = NoErr) =>
        LET d == fsys[Path1]
            four == /\ d.kind = "dir" /\ d.req.exists /\ d.lock.exists
                    /\ d.lock.mtime >= d.req.mtime
                    /\ d.req.bytes = Content1
        IN  IF four
            THEN fsys' = fsys /\ runner'[1].installed /\ last'.err = NoErr
            ELSE /\ runner'[1].installed = runner[1].installed
                 /\ IF d.kind = "dir"
                    THEN /\ last'.err = NoErr
                         /\ fsys' = [fsys EXCEPT ![Path1].req = File(Content1, clock)]
                    ELSE last'.err = "oserror" /\ fsys' = fsys]_vars

\* the skip applied, and on a runner that install() had not marked
C4_Witness ==
    /\ last.op = "generate_requirement_file" /\ last.err = NoErr
    /\ ~last.again
    /\ runner[1].installed /\ ~runner[1].dry_run
    /\ runner[1].specs # {}
    /\ LockExists(fsys, Path1)
    /\ fsys[Path1].lock.mtime >= fsys[Path1].req.mtime
    /\ fsys[Path1].req.bytes = Content1

\* C9: create_env on a path that is a regular file raises the path conflict,
\* creates nothing, runs nothing and leaves the runner as it is, in dry-run and
\* in real mode.
C9_PathConflict ==
    [][\A p \in Paths :
          (last'.op = "create_env" /\ fsys[p].kind = "file" /\ CreateEnv(1, p)) =>
          /\ last'.err = "path_conflict"
          /\ last'.ext = {}
          /\ fsys' = fsys
          /\ runner' = runner]_vars

C9_Witness ==
    /\ last.op = "create_env" /\ last.err = "path_conflict" /\ last.path = EnvF
    /\ fsys[EnvF].kind = "file"
    /\ runner[1].env_path = EnvA /\ runner[1].installed /\ runner[1].specs # {}

\* the content expected of a history of add_spec calls: the distinct specs in
\* lexicographic order, each followed by a newline (a lone newline for none)
RECURSIVE InsertSorted(_, _)
InsertSorted(x, seq) ==
    IF seq = <<>> THEN <<x>>
    ELSE IF x = Head(seq) THEN seq
    ELSE IF LexLess(x, Head(seq)) THEN <<x>> \o seq
    ELSE <<Head(seq)>> \o InsertSorted(x, Tail(seq))

RECURSIVE InsertionSort(_)
InsertionSort(seq) ==
    IF seq = <<>> THEN <<>> ELSE InsertSorted(Head(seq), InsertionSort(Tail(seq)))

RECURSIVE Lines(_)
Lines(seq) == IF seq = <<>> THEN <<>> ELSE Head(seq) \o LineSep \o Lines(Tail(seq))

ExpectedContent(seq) == IF seq = <<>> THEN LineSep ELSE Lines(InsertionSort(seq))

AddHistories == UNION {[1..n -> SpecUniverse] : n \in 0..MaxAdds}

\* C10: add_spec adds to a set, so re-adding a spec leaves the Spec Set and its
\* size as they are; the content computed from a Spec Set (looked at whenever
\* the Spec Set changes) is the one expected of every sequence of add_spec
\* calls that adds these specs, in any order and with any repetition, and is
\* what a write of the requirement file leaves.
C10_ContentOfTheSetAdded ==
    [][/\ runner'[1].specs # runner[1].specs =>
             \A h \in AddHistories :
                 Range(h) = runner'[1].specs =>
                     ExpectedContent(h) = generate_requirement_content(runner'[1].specs)
       /\ \A s \in SpecUniverse :
             (last'.op = "add_spec" /\ last'.err = NoErr /\ AddSpec(1, s)) =>
                 /\ runner'[1].specs = runner[1].specs \cup {s}
                 /\ s \in runner[1].specs =>
                       /\ runner'[1].specs = runner[1].specs
                       /\ Cardinality(runner'[1].specs) = Cardinality(runner[1].specs)
       /\ (last'.op = "generate_requirement_file" /\ fsys' # fsys
           /\ GenerateRequirementFile(1)) =>
                 fsys'[Path1].req.bytes = ExpectedContent(Sorted(runner[1].specs))]_vars

\* the file written for "b" and "ab" holds "ab" first, and add_spec was then
\* called twice in a row on the runner that holds both
C10_Witness ==
    /\ runner[1].specs = {<<ChB>>, <<ChA, ChB>>}
    /\ last.op = "add_spec" /\ last.again /\ last.err = NoErr
    /\ fsys[EnvA].req.bytes = <<ChA, ChB, NL, ChB, NL>>

KeyOf(i, label) == <<label, env_of[i]>>

PhaseStep(i, label) == IF label = PipEnv THEN SoftwareCreateEnv(i) ELSE SoftwareInstall(i)

\* C5: in a real run that follows a run in which an instance wrote the
\* requirement file of a Spec Set at a path and installed it, an instance with a
\* new runner and the same Spec Set finds the files up to date: its
\* software_create_env raises nothing, writes nothing, runs no command and marks
\* the runner installed, and its software_install, there and in whatever state
\* follows, raises nothing, writes nothing and runs no installer.
C5_SecondRunInstallsNothing ==
    \A i \in Insts :
        LET p == env_of[i]
            same == {l \in SpecLists : prevOk[p].ok /\ Range(l) = prevOk[p].specs}
        IN  (p # None /\ ~ws_dry_run) =>
            /\ (runner[i] = NewRunner /\ <<PipEnv, p>> \notin cache) =>
                  \A list \in same, venvOut \in VenvOutcomes, out \in InstallOutcomes :
                      LET c1 == software_create_env(Here(i), FALSE, p, clock,
                                                    venvOut, TRUE, list)
                          c2 == software_install(Ctx(c1.r, c1.fs), FALSE, p, clock,
                                                 TRUE, out)
                      IN  /\ c1.err = NoErr /\ c1.ext = {} /\ c1.fs = fsys
                          /\ c1.r.installed
                          /\ c2.err = NoErr /\ c2.ext = {} /\ c2.fs = fsys
            /\ (/\ prevOk[p].ok /\ done[i][PipEnv] = "ok"
                /\ runner[i].specs = prevOk[p].specs) =>
                  \A out \in InstallOutcomes :
                      LET c2 == software_install(Here(i), FALSE, p, clock, TRUE, out)
                      IN  c2.err = NoErr /\ c2.ext = {} /\ c2.fs = fsys

\* the second run went through both phases for the Spec Set the first installed
C5_Witness ==
    /\ ~ws_dry_run /\ prevOk[EnvA].ok /\ env_of[1] = EnvA
    /\ prevOk[EnvA].specs = {<<ChB>>, <<ChA, ChB>>}
    /\ runner[1].specs = prevOk[EnvA].specs
    /\ done[1][PipEnv] = "ok" /\ done[1][PipInstall] = "ok"
    /\ last.op = PipInstall /\ last.inst = 1 /\ last.ext = {} /\ ~last.skipped

\* C6: in one run no phase body is entered twice for one cache key.
C6_BodyOncePerKey == \A key \in CacheKeys : bodyRuns[key] <= 1

\* every body has run for both paths, one of them raised, and a phase was
\* invoked again
C6_Witness ==
    /\ \A key \in CacheKeys : bodyRuns[key] = 1
    /\ \E i \in Insts, l \in Labels : done[i][l] = "failed"
    /\ last.skipped

\* C7: a phase that is not skipped puts its key into the cache whatever its
\* body raises, so the key of a failed phase is in the cache; a phase whose key
\* is in the cache is skipped; a new run starts with an empty cache, where the
\* body is entered again.
C7_KeyRegisteredBeforeBody ==
    [][/\ \A i \in Insts, l \in Labels :
             (last'.op = l /\ last'.inst = i /\ env_of[i] # None /\ PhaseStep(i, l)) =>
                 IF KeyOf(i, l) \in cache
                 THEN last'.skipped /\ cache' = cache /\ bodyRuns' = bodyRuns
                 ELSE /\ ~last'.skipped
                      /\ KeyOf(i, l) \in cache'
                      /\ bodyRuns'[KeyOf(i, l)] = bodyRuns[KeyOf(i, l)] + 1
       /\ \A i \in Insts, l \in Labels :
             (done'[i][l] = "failed" /\ env_of'[i] # None) => <<l, env_of'[i]>> \in cache'
       /\ (last'.op = "new_run" /\ NewRun) =>
             (cache' = {} /\ \A key \in CacheKeys : bodyRuns'[key] = 0)]_vars

\* the body of instance 1 raised, and the same phase of instance 2, for the
\* same path, was skipped
C7_Witness ==
    /\ env_of[1] = EnvA /\ env_of[2] = EnvA
    /\ \E l \in Labels :
          /\ done[1][l] = "failed"
          /\ last.op = l /\ last.inst = 2 /\ last.skipped
          /\ bodyRuns[<<l, EnvA>>] = 1

\* C8: a phase whose key is in the cache returns without raising, and leaves
\* every runner and the disk as they are and runs no command.
C8_SkippedPhaseTouchesNothing ==
    [][\A i \in Insts, l \in Labels :
          (/\ last'.op = l /\ last'.inst = i
           /\ env_of[i] # None /\ KeyOf(i, l) \in cache
           /\ PhaseStep(i, l)) =>
              /\ last'.skipped /\ last'.err = NoErr /\ last'.ext = {}
              /\ runner' = runner
              /\ fsys' = fsys]_vars

\* software_create_env of an instance was skipped for /env/a, and its runner
\* is as constructed
C8_Witness ==
    /\ last.op = PipEnv /\ last.skipped /\ last.path = EnvA
    /\ \E i \in Insts : last.inst = i /\ runner[i] = NewRunner
    /\ fsys[EnvA].kind = "dir"

\* C11: install() on a runner without a path raises the not-configured error;
\* install() on a runner that passes the configuration check and is not marked
\* installed raises the missing-requirement-file error when the requirement
\* file is not there; both leave the disk and the runner as they are, installed
\* false, and run no command. The installed flag is looked at first: install()
\* on an installed runner returns and changes nothing although the requirement
\* file is not there.
C11_InstallFailures ==
    [][(last'.op = "install" /\ Install(1)) =>
        /\ Path1 = None =>
              /\ last'.err = "not_configured"
              /\ last'.ext = {} /\ fsys' = fsys /\ runner' = runner
              /\ ~runner'[1].installed
        /\ (/\ check_env_configured(Here(1)) = NoErr
            /\ ~ReqExists(fsys, Path1)) =>
              IF runner[1].installed
              THEN /\ last'.err = NoErr
                   /\ last'.ext = {} /\ fsys' = fsys /\ runner' = runner
              ELSE /\ last'.err = "missing_req"
                   /\ last'.ext = {} /\ fsys' = fsys /\ runner' = runner
                   /\ ~runner'[1].installed
                   /\ ~LockExists(fsys', Path1) \/ fsys'[Path1].lock = fsys[Path1].lock]_vars

\* install() returned on an installed runner whose path holds no requirement
\* file
C11_Witness ==
    /\ last.op = "install" /\ last.err = NoErr /\ last.ext = {}
    /\ runner[1].installed
    /\ Path1 # None /\ ~ReqExists(fsys, Path1)

\* C12: add_spec on a runner whose path was never bound raises the
\* not-configured error and leaves the Spec Set as it is; on a runner whose path
\* is bound, by configure_env or by create_env, it returns and adds the spec,
\* in dry-run and in real mode.
C12_AddSpecOnceBound ==
    [][\A s \in SpecUniverse :
          (last'.op = "add_spec" /\ AddSpec(1, s)) =>
              IF Path1 = None
              THEN last'.err = "not_configured" /\ runner'[1].specs = runner[1].specs
              ELSE last'.err = NoErr /\ runner'[1].specs = runner[1].specs \cup {s}]_vars

\* C12, amended: add_spec on a runner whose path is bound returns and adds the
\* spec in dry-run, and in real mode when the activate script of the venv is
\* there under the path; in real mode without it, it raises the configuration
\* error and leaves the Spec Set as it is. With no path bound it raises the
\* not-configured error and leaves the Spec Set as it is. It never touches the
\* disk nor runs a command.
C12_AddSpecNeedsTheVenv ==
    [][\A s \in SpecUniverse :
          (last'.op = "add_spec" /\ AddSpec(1, s)) =>
              /\ fsys' = fsys /\ last'.ext = {}
              /\ IF Path1 = None
                 THEN last'.err = "not_configured" /\ runner' = runner
                 ELSE IF runner[1].dry_run \/ ActivateExists(fsys, Path1)
                 THEN /\ last'.err = NoErr
                      /\ runner' = [runner EXCEPT ![1].specs = @ \cup {s}]
                 ELSE last'.err = "venv_not_configured" /\ runner' = runner]_vars

\* add_spec raised in real mode on a runner whose path is bound and that had
\* taken a spec before
C12_Witness ==
    /\ last.op = "add_spec" /\ last.err = "venv_not_configured"
    /\ Path1 = EnvA /\ ~runner[1].dry_run
    /\ runner[1].specs # {}

\* the disk as it is, as it was at the start, and with other files at /env/a
OtherDisks ==
    {fsys,
     [p \in Paths |-> IF p = EnvF THEN RegularFile ELSE NoDir],
     [fsys EXCEPT ![EnvA] = [kind |-> "dir", venv |-> "ok",
                             req |-> File(<<ChA, NL>>, 0),
                             lock |-> File(<<ChB, ChB>>, 1)]]}

\* C13: an inventory_hash that returns leaves the disk and the runner as they
\* are. In dry-run it returns the digest of the content computed from the Spec
\* Set: a dry-run runner with the same Spec Set, whatever its path and its
\* installed flag and whatever is on the disk, gets the same digest. In real
\* mode it returns the digest of the bytes of the lock file, whatever the Spec
\* Set of the runner.
C13_DigestOfContentOrLock ==
    LET c == inventory_hash(Here(1))
    IN  (c.err = NoErr) =>
        /\ c.fs = fsys /\ c.r = runner[1] /\ c.ext = {}
        /\ runner[1].dry_run =>
              /\ c.ret = Hash(Content1)
              /\ \A p2 \in Paths, inst2 \in BOOLEAN, d \in OtherDisks :
                    LET c2 == inventory_hash(Ctx([env_path |-> p2, dry_run |-> TRUE,
                                                  specs |-> runner[1].specs,
                                                  installed |-> inst2], d))
                    IN  c2.err = NoErr /\ c2.ret = c.ret /\ c2.fs = d
        /\ ~runner[1].dry_run =>
              /\ LockExists(fsys, Path1)
              /\ c.ret = Hash(fsys[Path1].lock.bytes)
              /\ \A S \in SUBSET SpecUniverse :
                    inventory_hash(Ctx([runner[1] EXCEPT !.specs = S], fsys)).ret = c.ret

\* inventory_hash returned in dry-run, for two specs, while the requirement file
\* on disk holds the content of another Spec Set and there is a lock file
C13_Witness ==
    /\ last.op = "inventory_hash" /\ last.err = NoErr
    /\ runner[1].dry_run
    /\ runner[1].specs = SpecUniverse
    /\ ReqExists(fsys, Path1) /\ fsys[Path1].req.bytes # Content1
    /\ LockExists(fsys, Path1)

\* C14: in real mode create_env runs the interpreter exactly when the path is
\* not a regular file and has no .venv under it; where a bootstrap has
\* succeeded, and in the create_env called right after one that returned, it
\* returns, runs no command and leaves the disk as it is; every create_env that
\* returns leaves env_path bound to the path it was given.
C14_CreateEnvBootstrapsOnce ==
    [][\A p \in Paths :
          (last'.op = "create_env" /\ last'.path = p /\ CreateEnv(1, p)) =>
              /\ last'.err = NoErr => runner'[1].env_path = p
              /\ ~runner[1].dry_run =>
                    /\ ("venv" \in last'.ext) <=>
                           (fsys[p].kind # "file" /\ ~VenvExists(fsys, p))
                    /\ last'.ext \subseteq {"venv"}
                    /\ (\/ ActivateExists(fsys, p)
                        \/ (last.op = "create_env" /\ last.path = p /\ last.err = NoErr)) =>
                           /\ last'.err = NoErr
                           /\ last'.ext = {}
                           /\ fsys' = fsys]_vars

\* create_env was called twice in a row in real mode for /env/a, where the
\* venv is
C14_Witness ==
    /\ last.op = "create_env" /\ last.again /\ last.err = NoErr /\ last.ext = {}
    /\ last.path = EnvA
    /\ ~runner[1].dry_run
    /\ ActivateExists(fsys, EnvA) /\ Path1 = EnvA

\* the calls on a runner that C15 and C16 speak of: all but its construction
RunnerOps ==
    {"configure_env", "set_dry_run", "create_env", "add_spec",
     "generate_requirement_file", "install", "get_version", "inventory_hash"}

\* C15: once create_env has returned on a runner, no call of configure_env,
\* create_env, add_spec, generate_requirement_file, install or inventory_hash
\* on it changes env_path; looked at in the call that follows the create_env.
C15_PathImmutableOnceCreated ==
    [][(/\ last.op = "create_env" /\ last.inst = 1 /\ last.err = NoErr
        /\ last'.op \in RunnerOps \ {"set_dry_run", "get_version"})
       => runner'[1].env_path = runner[1].env_path]_vars

\* where a runner is in Unconfigured (0), Configured (1), Created (2),
\* RequirementsWritten (3), Installed (4): by its installed flag, its path, and
\* what there is on the disk at that path
LifecycleRank(r, fs) ==
    IF r.installed THEN 4
    ELSE IF r.env_path = None THEN 0
    ELSE IF ReqExists(fs, r.env_path) THEN 3
    ELSE IF Dir(fs, r.env_path).kind = "dir" THEN 2
    ELSE 1

C17_SameDigestForSamePath ==
    \A i \in Insts, j \in Insts :
        (/\ i # j
         /\ env_of[i] # None /\ env_of[i] = env_of[j]
         /\ \A l \in Labels : done[i][l] = "ok" /\ done[j][l] = "idle"
         /\ runner[j].specs = {} /\ ~runner[j].installed) =>
            \A a \in Range(hash_inventory[i].software),
               b \in Range(hash_inventory[j].software) : a.digest = b.digest

\* the same in real mode only
C17_SameDigestInRealMode == ws_dry_run \/ C17_SameDigestForSamePath

\* both instances recorded a software digest for /env/a in real mode
C17_RealWitness ==
    /\ ~ws_dry_run /\ env_of[1] = EnvA /\ env_of[2] = EnvA
    /\ \A l \in Labels : done[1][l] = "ok" /\ done[2][l] = "idle"
    /\ hash_inventory[1].software # <<>> /\ hash_inventory[2].software # <<>>
    /\ runner[2].specs = {} /\ runner[1].specs # {}

\* C18: in real mode generate_requirement_file marks the runner installed for
\* files it finds up to date only when the lock file is what an install() that
\* ran pip install and pip freeze to the end wrote for the content of the
\* requirement file; the lock file a failed freeze leaves is not accepted.
C18_LockIsOfCompletedInstall ==
    [][(/\ last'.op = "generate_requirement_file"
        /\ GenerateRequirementFile(1)
        /\ ~runner[1].dry_run
        /\ last'.err = NoErr
        /\ ~runner[1].installed /\ runner'[1].installed)
       => /\ LockExists(fsys, Path1)
          /\ fsys[Path1].lock.bytes = FreezeOutput(Content1)]_vars

\* a new runner was marked installed for the empty lock file of a failed freeze
C18_FailedFreezeAccepted ==
    /\ last.op = "generate_requirement_file" /\ last.err = NoErr
    /\ ~runner[1].dry_run /\ runner[1].installed
    /\ LockExists(fsys, Path1) /\ fsys[Path1].lock.bytes = <<>>

\* C19: a runner that is never put in dry-run and is given one path is marked
\* installed only while the requirement file and the lock file are there under
\* its path, so that inventory_hash returns the digest of the lock file.
C19_InstalledHasItsFiles ==
    (~runner[1].dry_run /\ runner[1].installed) =>
        /\ Path1 # None
        /\ ReqExists(fsys, Path1)
        /\ LockExists(fsys, Path1)
        /\ inventory_hash(Here(1)).err = NoErr
        /\ inventory_hash(Here(1)).ret = Hash(fsys[Path1].lock.bytes)

\* a new runner was marked installed for the files an earlier runner left, and
\* inventory_hash returned
C19_Witness ==
    /\ last.op = "inventory_hash" /\ last.err = NoErr
    /\ ~runner[1].dry_run /\ runner[1].installed
    /\ runner[1].specs = SpecUniverse
    /\ fsys[Path1].lock.bytes = FreezeOutput(Content1)
    /\ fsys[Path1].lock.mtime > fsys[Path1].req.mtime

====
